---- MODULE Spec2Model ----
(***************************************************************************)
(* The cache layer of the neighborhoods agglomeration pipeline             *)
(* (src/cache_io.py): the fingerprint of a run's inputs, the three cache   *)
(* files, save_cache / load_cache / cache_valid, and the conversion of the *)
(* saved rows back into the adjacency graph and the edge-score table; and  *)
(* the worker side of its two parallel stages (src/mp_helpers.py,          *)
(* src/utilities.py): the pool initializers, _pair_overlaps_area,          *)
(* _score_edge_pair_worker and ols_r2.                                     *)
(*                                                                         *)
(* Python values are records [t |-> tag, v |-> payload]:                   *)
(*   None -> "None", a number -> "num", a str -> "str", a dict -> "dict"   *)
(* (payload: a record over the dict's possible keys, the value Absent      *)
(* standing for a key the dict does not hold), any object without a .get   *)
(* method that is no dict -> "list".  Python's == on these values is       *)
(* structural equality; NaN, the one value unequal to itself, is outside   *)
(* the model of the cache layer.                                           *)
(*                                                                         *)
(* A str used as a TileId is a sequence of code points (small naturals),   *)
(* so that <, sorted() and truthiness are computed as Python does.         *)
(***************************************************************************)
EXTENDS Integers, Sequences, FiniteSets, TLC

VARIABLES
    inputs,        \* what make_cache_key reads: source files, parameters, tiles
    dir_ok,        \* whether Path(cache_dir).mkdir(parents=True, exist_ok=True) succeeds
    file_meta,     \* {prefix}_meta.json
    file_adj,      \* {prefix}_adj.parquet
    file_scores,   \* {prefix}_scores.parquet
    pc,            \* where the orchestrating run stands
    current_meta,  \* the fingerprint of this run (make_cache_key's result)
    cached_meta,   \* load_cache's first result / cache_valid's first argument
    df_adj,        \* load_cache's second result / df_to_adjacency's argument
    df_scores,     \* load_cache's third result / df_to_edge_scores' argument
    valid_result,  \* what cache_valid did: "none" (not called), "True", "False", "raise"
    saved_inputs,  \* the inputs whose fingerprint the last completed save_cache wrote
    adjacency,     \* the AdjacencyGraph handed to save_cache
    edge_scores,   \* the edge-score table handed to save_cache
    iter_order,    \* the order in which dicts and sets are iterated
    adj_out,       \* df_to_adjacency's result
    scores_out,    \* df_to_edge_scores' result
    last_save,     \* history: the save_cache call that last wrote the meta file
    tilesets,      \* the tile datasets handed to _tiles_signature
    sigs,          \* _tiles_signature's results
    payload,       \* what the parent process hands to the pool initializer
    wglobals,      \* per worker process: the module globals of mp_helpers
    work,          \* the work items of the batch that no worker has run yet
    results,       \* the results collected from the workers
    ols_out        \* ols_r2's result

vars == <<inputs, dir_ok, file_meta, file_adj, file_scores, pc, current_meta,
          cached_meta, df_adj, df_scores, valid_result, saved_inputs,
          adjacency, edge_scores, iter_order, adj_out, scores_out,
          last_save, tilesets, sigs, payload, wglobals, work, results, ols_out>>

sigvars == <<tilesets, sigs>>
poolvars == <<payload, wglobals, work, results, ols_out>>

-----------------------------------------------------------------------------
(* Python values *)

PyNone == [t |-> "None", v |-> 0]
Absent == [t |-> "absent", v |-> 0]
PyNum(n) == [t |-> "num", v |-> n]
PyStr(s) == [t |-> "str", v |-> s]
PyDict(d) == [t |-> "dict", v |-> d]
PyList == [t |-> "list", v |-> 0]
Exc == [t |-> "exc", v |-> 0]

IsDict(x) == x.t = "dict"

\* d.get(k, default) on a dict d
DictGet(d, k, default) ==
    IF k \in DOMAIN d.v /\ d.v[k] # Absent THEN d.v[k] ELSE default

\* obj.get(k, default): AttributeError on an object that has no .get
Get(obj, k, default) ==
    IF obj = Exc THEN Exc
    ELSE IF IsDict(obj) THEN DictGet(obj, k, default)
    ELSE Exc

EmptyDict == PyDict([path |-> Absent, size |-> Absent, mtime |-> Absent])

ALGO_VERSION == "2025-11-14a"

-----------------------------------------------------------------------------
(* cache_valid *)

\* one conjunct `left == right` of cache_valid's return expression
EqStep(left, right) ==
    IF left = Exc \/ right = Exc THEN "raise"
    ELSE IF left = right THEN "True" ELSE "False"

\* a chain `s1 and s2 and ...`: the first conjunct that is not True decides
RECURSIVE AndChain(_)
AndChain(steps) ==
    IF steps = <<>> THEN "True"
    ELSE IF Head(steps) = "True" THEN AndChain(Tail(steps))
    ELSE Head(steps)

\* the conjuncts of lines 151-157, in order
ValidSteps(cached, current) ==
    << EqStep(Get(cached, "algo_version", PyNone), Get(current, "algo_version", PyNone)),
       EqStep(Get(cached, "params", PyNone), Get(current, "params", PyNone)),
       EqStep(Get(cached, "tiles_sig", PyNone), Get(current, "tiles_sig", PyNone)),
       EqStep(Get(Get(cached, "parcels", EmptyDict), "mtime", PyNone),
              Get(Get(current, "parcels", EmptyDict), "mtime", PyNone)),
       EqStep(Get(Get(cached, "parcels", EmptyDict), "size", PyNone),
              Get(Get(current, "parcels", EmptyDict), "size", PyNone)),
       EqStep(Get(Get(cached, "tiles", EmptyDict), "mtime", PyNone),
              Get(Get(current, "tiles", EmptyDict), "mtime", PyNone)),
       EqStep(Get(Get(cached, "tiles", EmptyDict), "size", PyNone),
              Get(Get(current, "tiles", EmptyDict), "size", PyNone)) >>

\* try: return (...)  except Exception: return False
CatchFalse(r) == IF r = "raise" THEN "False" ELSE r

\* mutant: the comparison of the tiles file's mtime is left out
cache_valid_no_tiles_mtime(cached, current) ==
    LET s == ValidSteps(cached, current)
    IN  CatchFalse(AndChain(<<s[1], s[2], s[3], s[4], s[5], s[7]>>))

\* mutant: no try/except around the comparison
cache_valid_uncaught(cached, current) ==
    AndChain(ValidSteps(cached, current))

\* mutant: the file entries are compared whole, path included
cache_valid_with_path(cached, current) ==
    CatchFalse(AndChain(ValidSteps(cached, current) \o
        << EqStep(Get(cached, "parcels", EmptyDict), Get(current, "parcels", EmptyDict)),
           EqStep(Get(cached, "tiles", EmptyDict), Get(current, "tiles", EmptyDict)) >>))

cache_valid(cached, current) ==
    CatchFalse(AndChain(ValidSteps(cached, current)))

-----------------------------------------------------------------------------
(* str values used as TileIds: sequences of code points *)

NL == 10   \* "\n"

\* a < b on two str (lexicographic by code point)
RECURSIVE StrLess(_, _)
StrLess(a, b) ==
    IF b = <<>> THEN FALSE
    ELSE IF a = <<>> THEN TRUE
    ELSE IF Head(a) < Head(b) THEN TRUE
    ELSE IF Head(a) > Head(b) THEN FALSE
    ELSE StrLess(Tail(a), Tail(b))

\* list.insert at the place that keeps xs sorted
RECURSIVE SortedInsert(_, _)
SortedInsert(x, xs) ==
    IF xs = <<>> THEN <<x>>
    ELSE IF StrLess(Head(xs), x) THEN <<Head(xs)>> \o SortedInsert(x, Tail(xs))
    ELSE <<x>> \o xs

\* sorted(xs) on a list of str
RECURSIVE Sorted(_)
Sorted(xs) == IF xs = <<>> THEN <<>> ELSE SortedInsert(Head(xs), Sorted(Tail(xs)))

\* "\n".join(xs)
RECURSIVE JoinNL(_)
JoinNL(xs) ==
    IF xs = <<>> THEN <<>>
    ELSE IF Len(xs) = 1 THEN Head(xs)
    ELSE Head(xs) \o <<NL>> \o JoinNL(Tail(xs))

\* the text of a str
Chr(c) == CASE c = NL -> "\n" [] c = 97 -> "a" [] c = 98 -> "b" [] c = 99 -> "c"
            [] OTHER -> "?"
RECURSIVE Text(_)
Text(s) == IF s = <<>> THEN "" ELSE Chr(Head(s)) \o Text(Tail(s))

\* hashlib.sha256(s.encode("utf-8")).hexdigest(), taken as collision-free
Sha256Hex(s) == "sha256:" \o Text(s)

-----------------------------------------------------------------------------
(* the fingerprint: _file_fingerprint, _tiles_signature, make_cache_key *)

NoFile == [ok |-> FALSE, size |-> 0, mtime |-> 0]
Stat(size, mtime) == [ok |-> TRUE, size |-> size, mtime |-> mtime]

NoColumn == [has |-> FALSE, vals |-> <<>>]
Column(vals) == [has |-> TRUE, vals |-> vals]

FileDict(path, size, mtime) == PyDict([path |-> path, size |-> size, mtime |-> mtime])
SigDict(n, h) == PyDict([n_tiles |-> n, keys_hash |-> h])
ParamsDict(b, c, k) == PyDict([buffer_feet |-> b, crs_epsg_feet |-> c, k_neighbors |-> k])
MetaDict(algo, params, sig, parcels, tiles) ==
    PyDict([algo_version |-> algo, params |-> params, tiles_sig |-> sig,
            parcels |-> parcels, tiles |-> tiles])

\* str(p.resolve())
Resolve(path) == "/abs/" \o path

file_fingerprint(path, st) ==
    IF st.ok THEN FileDict(PyStr(Resolve(path)), PyNum(st.size), PyNum(st.mtime))
    ELSE FileDict(PyStr(path), PyNone, PyNone)

\* mutant: the keys are hashed in the order of the rows
tiles_signature_unsorted(tiles_gdf) ==
    IF ~tiles_gdf.tile_key.has /\ ~tiles_gdf.key.has
    THEN SigDict(PyNone, PyNone)
    ELSE LET keys == IF tiles_gdf.tile_key.has THEN tiles_gdf.tile_key.vals
                     ELSE tiles_gdf.key.vals
         IN  SigDict(PyNum(Len(keys)), PyStr(Sha256Hex(JoinNL(keys))))

tiles_signature(tiles_gdf) ==
    IF ~tiles_gdf.tile_key.has /\ ~tiles_gdf.key.has
    THEN SigDict(PyNone, PyNone)
    ELSE LET keys == IF tiles_gdf.tile_key.has THEN tiles_gdf.tile_key.vals
                     ELSE tiles_gdf.key.vals
             keys_sorted == Sorted(keys)
         IN  SigDict(PyNum(Len(keys_sorted)), PyStr(Sha256Hex(JoinNL(keys_sorted))))

make_cache_key(inp) ==
    MetaDict(PyStr(ALGO_VERSION),
             ParamsDict(PyNum(inp.buffer_feet),
                        IF inp.crs_epsg_feet = PyNone THEN PyNone
                        ELSE PyNum(inp.crs_epsg_feet.v),
                        PyNum(inp.k_neighbors)),
             tiles_signature(inp.tiles),
             file_fingerprint(inp.parcels_path, inp.parcels_stat),
             file_fingerprint(inp.tiles_path, inp.tiles_stat))

-----------------------------------------------------------------------------
(* the rows save_cache writes and the tables rebuilt from them *)

\* a cell of a data frame: a str, a number, or null
StrCell(x) == [t |-> "str", v |-> x]
NumCell(n) == [t |-> "num", v |-> n]
NullCell == [t |-> "None", v |-> 0]
PyDf(rows) == [t |-> "df", v |-> rows]

NoneText == <<78, 111, 110, 101>>   \* "None"

\* str(x) of a cell's value
StrOf(cell) == IF cell.t = "str" THEN cell.v ELSE NoneText

\* the elements of S in the order the interpreter iterates them
InOrder(S, order) == SelectSeq(order, LAMBDA x : x \in S)

\* lines 100-103: the rows appended for one tile a and its neighbours nbs
RECURSIVE RowsOfTile(_, _)
RowsOfTile(a, nbs) ==
    IF nbs = <<>> THEN <<>>
    ELSE (IF StrLess(a, Head(nbs))
          THEN << [tile_a |-> StrCell(a), tile_b |-> StrCell(Head(nbs))] >>
          ELSE <<>>)
         \o RowsOfTile(a, Tail(nbs))

\* lines 98-103: rows_adj, the tiles being the keys not yet visited
RECURSIVE RowsOfTiles(_, _, _)
RowsOfTiles(adj, tiles, order) ==
    IF tiles = <<>> THEN <<>>
    ELSE RowsOfTile(Head(tiles), InOrder(adj[Head(tiles)], order))
         \o RowsOfTiles(adj, Tail(tiles), order)

\* mutant: every (a, b) is written, whichever endpoint sorts first
RECURSIVE AllRowsOfTiles(_, _, _)
AllRowsOfTiles(adj, tiles, order) ==
    IF tiles = <<>> THEN <<>>
    ELSE LET a == Head(tiles)
             nbs == InOrder(adj[a], order)
         IN  [i \in 1..Len(nbs) |-> [tile_a |-> StrCell(a), tile_b |-> StrCell(nbs[i])]]
             \o AllRowsOfTiles(adj, Tail(tiles), order)
adj_rows_unordered(adj, order) == AllRowsOfTiles(adj, InOrder(DOMAIN adj, order), order)

adj_rows(adj, order) == RowsOfTiles(adj, InOrder(DOMAIN adj, order), order)

\* adj.setdefault(a, set()).add(b)
SetDefaultAdd(adj, a, b) ==
    [k \in DOMAIN adj \cup {a} |->
        IF k = a THEN (IF a \in DOMAIN adj THEN adj[a] ELSE {}) \cup {b} ELSE adj[k]]

\* lines 167-170: the loop over the rows
RECURSIVE AdjacencyOfRows(_, _)
AdjacencyOfRows(rows, adj) ==
    IF rows = <<>> THEN adj
    ELSE LET a == StrOf(Head(rows).tile_a)
             b == StrOf(Head(rows).tile_b)
         IN  AdjacencyOfRows(Tail(rows), SetDefaultAdd(SetDefaultAdd(adj, a, b), b, a))

\* mutant: only the direction a -> b is inserted
RECURSIVE OneWayOfRows(_, _)
OneWayOfRows(rows, adj) ==
    IF rows = <<>> THEN adj
    ELSE OneWayOfRows(Tail(rows),
            SetDefaultAdd(adj, StrOf(Head(rows).tile_a), StrOf(Head(rows).tile_b)))
df_to_adjacency_one_way(df) ==
    IF df = PyNone THEN <<>> ELSE OneWayOfRows(df.v, <<>>)

df_to_adjacency(df) ==
    IF df = PyNone \/ Len(df.v) = 0 THEN <<>> ELSE AdjacencyOfRows(df.v, <<>>)

\* an edge score handed to save_cache: an object with attributes
\* (kind "record") or a dict (kind "dict"); a field is a number, None or Absent
Es(kind, r2, n_obs, n_sales) ==
    [kind |-> kind, r2 |-> r2, n_obs |-> n_obs, n_sales |-> n_sales]

\* getattr(es, f, None)
GetAttr(es, f) == IF es.kind = "record" /\ es[f] # Absent THEN es[f] ELSE PyNone

\* es.get(f, default)
EsGet(es, f, default) == IF es[f] # Absent THEN es[f] ELSE default

\* x if x is not None else 0
OrZero(x) == IF x = PyNone THEN 0 ELSE x.v

\* mutant: only the attributes of a score are read, a dict gets the defaults
ScoreRow_attrs_only(a, b, es) ==
    [tile_a |-> StrCell(a), tile_b |-> StrCell(b),
     r2 |-> NumCell(OrZero(GetAttr(es, "r2"))),
     n_obs |-> NumCell(OrZero(GetAttr(es, "n_obs"))),
     n_sales |-> NumCell(OrZero(GetAttr(es, "n_sales")))]

\* lines 115-128: the row of one score, a and b being sorted(list(k))
ScoreRow(a, b, es) ==
    LET viaDict == GetAttr(es, "r2") = PyNone /\ es.kind = "dict"
        r2 == IF viaDict THEN EsGet(es, "r2", PyNum(0)) ELSE GetAttr(es, "r2")
        n_obs == IF viaDict THEN EsGet(es, "n_obs", PyNum(0)) ELSE GetAttr(es, "n_obs")
        n_sales == IF viaDict THEN EsGet(es, "n_sales", PyNum(0)) ELSE GetAttr(es, "n_sales")
    IN  [tile_a |-> StrCell(a), tile_b |-> StrCell(b),
         r2 |-> NumCell(OrZero(r2)), n_obs |-> NumCell(OrZero(n_obs)),
         n_sales |-> NumCell(OrZero(n_sales))]

\* edge_scores.items(): the keys in the order the dict is iterated
TableKeys(table, order) ==
    LET L == Len(order)
        cand == [n \in 1..(L * L) |-> <<((n - 1) \div L) + 1, ((n - 1) % L) + 1>>]
        held == SelectSeq(cand, LAMBDA p :
                    p[1] <= p[2] /\ {order[p[1]], order[p[2]]} \in DOMAIN table)
    IN  [i \in 1..Len(held) |-> {order[held[i][1]], order[held[i][2]]}]

\* lines 109-128: rows_sc; a key that does not unpack into two is skipped
RECURSIVE RowsOfKeys(_, _, _)
RowsOfKeys(table, keys, order) ==
    IF keys = <<>> THEN <<>>
    ELSE LET k == Head(keys)
             ab == Sorted(InOrder(k, order))
         IN  (IF Len(ab) # 2 THEN <<>>
              ELSE << ScoreRow(ab[1], ab[2], table[k]) >>)
             \o RowsOfKeys(table, Tail(keys), order)

score_rows(table, order) == RowsOfKeys(table, TableKeys(table, order), order)

\* out[k] = x
DictSet(out, k, x) == [y \in DOMAIN out \cup {k} |-> IF y = k THEN x ELSE out[y]]

\* lines 178-187: the loop over the rows
RECURSIVE ScoresOfRows(_, _)
ScoresOfRows(rows, out) ==
    IF rows = <<>> THEN out
    ELSE LET a == StrOf(Head(rows).tile_a)
             b == StrOf(Head(rows).tile_b)
         IN  ScoresOfRows(Tail(rows),
                IF a = <<>> \/ b = <<>> THEN out
                ELSE DictSet(out, {a, b},
                        [r2 |-> Head(rows).r2.v, n_obs |-> Head(rows).n_obs.v,
                         n_sales |-> Head(rows).n_sales.v]))

df_to_edge_scores(df) ==
    IF df = PyNone \/ Len(df.v) = 0 THEN <<>> ELSE ScoresOfRows(df.v, <<>>)

-----------------------------------------------------------------------------
(* the cache files: json.dump / json.load, to_parquet / read_parquet *)

\* json.dump: the JSON text of a value, as its syntax tree
RECURSIVE json_dump(_)
json_dump(x) ==
    CASE x.t = "None" -> [t |-> "null", v |-> 0]
      [] x.t = "num" -> [t |-> "number", v |-> x.v]
      [] x.t = "str" -> [t |-> "string", v |-> x.v]
      [] x.t = "dict" -> [t |-> "object", v |-> [k \in DOMAIN x.v |-> json_dump(x.v[k])]]
      [] OTHER -> x

\* mutant: numbers are read back as str
RECURSIVE json_load_numbers_as_str(_)
json_load_numbers_as_str(j) ==
    CASE j.t = "null" -> PyNone
      [] j.t = "number" -> PyStr("number")
      [] j.t = "string" -> PyStr(j.v)
      [] j.t = "object" ->
            PyDict([k \in DOMAIN j.v |-> json_load_numbers_as_str(j.v[k])])
      [] OTHER -> j

\* json.load
RECURSIVE json_load(_)
json_load(j) ==
    CASE j.t = "null" -> PyNone
      [] j.t = "number" -> PyNum(j.v)
      [] j.t = "string" -> PyStr(j.v)
      [] j.t = "object" -> PyDict([k \in DOMAIN j.v |-> json_load(j.v[k])])
      [] OTHER -> j

\* a cache file: st is "missing", "ok", "corrupt" or "unreadable"
NoMeta == [st |-> "missing", data |-> [t |-> "null", v |-> 0]]
NoRows == [st |-> "missing", data |-> <<>>]
MetaFile(meta) == [st |-> "ok", data |-> json_dump(meta)]
\* pd.DataFrame(rows).to_parquet(path)
ParquetFile(rows) == [st |-> "ok", data |-> rows]
\* pd.read_parquet(path)
ReadParquet(f) == PyDf(f.data)

\* Path(p).exists()
Exists(f) == f.st # "missing"
\* open / json.load / read_parquet raise on a file that exists and cannot be read
ReadRaises(f) == f.st \in {"corrupt", "unreadable"}

Loaded(raised, meta, adj, scores) ==
    [raised |-> raised, meta |-> meta, adj |-> adj, scores |-> scores]

\* load_cache: cache_paths (line 134) is outside the try
load_cache(dirOk, fm, fa, fs) ==
    IF ~dirOk THEN Loaded(TRUE, PyNone, PyNone, PyNone)
    ELSE IF ReadRaises(fm) \/ ReadRaises(fa) \/ ReadRaises(fs)
    THEN Loaded(FALSE, PyNone, PyNone, PyNone)
    ELSE Loaded(FALSE,
                IF Exists(fm) THEN json_load(fm.data) ELSE PyNone,
                IF Exists(fa) THEN ReadParquet(fa) ELSE PyNone,
                IF Exists(fs) THEN ReadParquet(fs) ELSE PyNone)


-----------------------------------------------------------------------------
(* src/mp_helpers.py: the module globals, the pool initializers and          *)
(* _pair_overlaps_area                                                       *)

\* a Python list
ListVal(xs) == [t |-> "seq", v |-> xs]

\* lines 18-22: the globals of a process that has imported the module
ModuleGlobals ==
    [BUFFERED_GEOMS |-> PyNone, PARCELS_MIN_DF |-> PyNone, PARCEL_IDX_BY_TILE |-> PyNone]

\* mutant: the assignment makes a local, the global is left as it was
init_pool_buffered_local(g, geoms_list) == g

init_pool_buffered(g, geoms_list) == [g EXCEPT !.BUFFERED_GEOMS = geoms_list]

init_pool_edges(g, parcels_min_df, parcel_idx_by_tile) ==
    [g EXCEPT !.PARCELS_MIN_DF = parcels_min_df,
              !.PARCEL_IDX_BY_TILE = parcel_idx_by_tile]

\* a buffered geometry: an axis-parallel rectangle, a geometry on which
\* intersection raises ("invalid"), or an object that is no geometry ("none")
Rect(x1, y1, x2, y2) == [g |-> "rect", x1 |-> x1, y1 |-> y1, x2 |-> x2, y2 |-> y2]
InvalidGeom == [g |-> "invalid", x1 |-> 0, y1 |-> 0, x2 |-> 0, y2 |-> 0]
NoGeom == [g |-> "none", x1 |-> 0, y1 |-> 0, x2 |-> 0, y2 |-> 0]
RaisedGeom == [g |-> "raise", x1 |-> 0, y1 |-> 0, x2 |-> 0, y2 |-> 0]

Max2(x, y) == IF x >= y THEN x ELSE y
Min2(x, y) == IF x <= y THEN x ELSE y

\* xs[i] on a Python list: a negative index counts from the end, an index
\* outside the list raises IndexError, subscripting None raises TypeError
ListItem(xs, i, raised) ==
    IF xs.t # "seq" THEN raised
    ELSE LET n == Len(xs.v)
         IN  IF 0 <= i /\ i < n THEN xs.v[i + 1]
             ELSE IF -n <= i /\ i < 0 THEN xs.v[n + i + 1]
             ELSE raised

\* p.intersection(q): the common part of two rectangles, which is empty, a
\* point or a segment (x2 <= x1 or y2 <= y1) when they do not overlap
Intersection(p, q) ==
    IF p.g # "rect" \/ q.g # "rect" THEN RaisedGeom
    ELSE Rect(Max2(p.x1, q.x1), Max2(p.y1, q.y1), Min2(p.x2, q.x2), Min2(p.y2, q.y2))

\* inter.area
Area(r) == IF r.x2 > r.x1 /\ r.y2 > r.y1 THEN (r.x2 - r.x1) * (r.y2 - r.y1) ELSE 0

\* mutant: a shared boundary counts as an overlap
AreaNotNegative(inter) == Area(inter) >= 0

\* line 57: getattr(inter, "area", 0.0) > 0
AreaPositive(inter) == Area(inter) > 0

\* what a worker function returns: a tuple, None, or the exception it lets out
TupleVal(x) == [t |-> "tuple", v |-> x]

\* lines 52-59, the body of the try; a work item is the sequence of its elements
pair_overlaps_body(g, pair) ==
    IF Len(pair) # 2 THEN Exc
    ELSE LET p == ListItem(g.BUFFERED_GEOMS, pair[1], RaisedGeom)
             q == ListItem(g.BUFFERED_GEOMS, pair[2], RaisedGeom)
             inter == Intersection(p, q)
         IN  IF inter.g = "raise" THEN Exc
             ELSE IF AreaPositive(inter) THEN TupleVal(pair)
             ELSE PyNone

\* lines 60-61: except Exception: return None
ExceptReturnNone(r) == IF r.t = "exc" THEN PyNone ELSE r

pair_overlaps_area(g, pair) == ExceptReturnNone(pair_overlaps_body(g, pair))

-----------------------------------------------------------------------------
(* numbers: a float is a fraction num/den in lowest terms, den = 0 standing  *)
(* for a value that is not finite (nan, inf)                                 *)

Abs(x) == IF x < 0 THEN -x ELSE x
RECURSIVE GCD(_, _)
GCD(a, b) == IF b = 0 THEN a ELSE GCD(b, a % b)

Rat(n, d) ==
    LET g == GCD(Abs(n), Abs(d))
        sgn == IF d < 0 THEN -1 ELSE 1
    IN  [num |-> (sgn * n) \div g, den |-> (sgn * d) \div g]
Zero == [num |-> 0, den |-> 1]
One == [num |-> 1, den |-> 1]
MinusOne == [num |-> -1, den |-> 1]
NotFinite == [num |-> 0, den |-> 0]

\* np.isfinite(x)
IsFinite(x) == x.den # 0
\* p < q on two finite floats
RatLess(p, q) == p.num * q.den < q.num * p.den
\* p - q on two finite floats
RatMinus(p, q) == Rat(p.num * q.den - q.num * p.den, p.den * q.den)

\* mutant: the value is returned as computed
Unclamped(r2) == r2

\* float(max(min(r2, 1.0), -1.0))
Clamp(r2) ==
    LET low == IF RatLess(One, r2) THEN One ELSE r2
    IN  IF RatLess(low, MinusOne) THEN MinusOne ELSE low

-----------------------------------------------------------------------------
(* the least-squares fit of y on (1, built_area_sqft, land_area_sqft)        *)

RECURSIVE DotFrom(_, _, _)
DotFrom(u, v, i) == IF i > Len(u) THEN 0 ELSE u[i] * v[i] + DotFrom(u, v, i + 1)
\* u.dot(v)
Dot(u, v) == DotFrom(u, v, 1)

\* the matrix of the inner products of the columns
Gram(cols) == [i \in 1..Len(cols) |-> [j \in 1..Len(cols) |-> Dot(cols[i], cols[j])]]

\* M without its first row and its j-th column
Minor(M, j) ==
    [i \in 1..(Len(M) - 1) |->
        [k \in 1..(Len(M) - 1) |-> IF k < j THEN M[i + 1][k] ELSE M[i + 1][k + 1]]]

RECURSIVE Det(_)
RECURSIVE DetFrom(_, _)
DetFrom(M, j) ==
    IF j > Len(M) THEN 0
    ELSE (IF j % 2 = 1 THEN 1 ELSE -1) * M[1][j] * Det(Minor(M, j)) + DetFrom(M, j + 1)
Det(M) == IF Len(M) = 0 THEN 1 ELSE DetFrom(M, 1)

\* np.ones(n)
Ones(n) == [i \in 1..n |-> 1]

\* the columns of X_ = column_stack([ones, X]) that span its column space
Basis(x1, x2) ==
    LET b1 == << Ones(Len(x1)) >>
        b2 == IF Det(Gram(b1 \o <<x1>>)) # 0 THEN b1 \o <<x1>> ELSE b1
    IN  IF Det(Gram(b2 \o <<x2>>)) # 0 THEN b2 \o <<x2>> ELSE b2

\* ss_res = sum((y - yhat) ** 2), yhat = X_.dot(beta) being the projection of
\* y on the column space of X_ for every least-squares solution beta
SsRes(y, x1, x2) ==
    LET b == Basis(x1, x2)
    IN  Rat(Det(Gram(b \o <<y>>)), Det(Gram(b)))

\* ss_tot = sum((y - y.mean()) ** 2)
SsTot(y) == Rat(Len(y) * Dot(y, y) - Dot(y, Ones(Len(y))) * Dot(y, Ones(Len(y))), Len(y))

\* How the floating-point computation goes on the data at hand:
\*   "exact"     the sums are the exact ones
\*   "unstable"  a near-singular design: beta is far off, ss_res is inflated
\*   "nonfinite" the squares overflow: ss_res and ss_tot are inf
\*   "raises"    np.linalg.lstsq raises LinAlgError
Unstable == Rat(7, 2)   \* by how many ss_tot an unstable fit inflates ss_res

\* 1.0 - (ss_res / ss_tot), for ss_tot > 0 or not finite
OneMinusRatio(y, x1, x2, numerics) ==
    IF numerics = "nonfinite" THEN NotFinite
    ELSE LET res == SsRes(y, x1, x2)
             tot == SsTot(y)
             exact == RatMinus(One, Rat(res.num * tot.den, res.den * tot.num))
         IN  IF numerics = "unstable" THEN RatMinus(exact, Unstable) ELSE exact

\* ss_tot <= 0
SsTotNotPositive(y, numerics) == numerics # "nonfinite" /\ SsTot(y).num <= 0

\* src/utilities.py, ols_r2: y and the two columns of X are sequences
ols_r2(y, x1, x2, numerics) ==
    IF numerics = "raises" THEN Zero
    ELSE IF SsTotNotPositive(y, numerics) THEN Zero
    ELSE LET r2 == OneMinusRatio(y, x1, x2, numerics)
         IN  IF ~IsFinite(r2) THEN Zero ELSE Clamp(r2)

-----------------------------------------------------------------------------
(* src/mp_helpers.py: _score_edge_pair_worker                                *)

MinSales == 3   \* line 76: if n_sales < 3
MinRows == 3    \* line 82: if len(df) < 3

\* a cell of the parcels table: a number or missing (NaN)
Num(x) == [nan |-> FALSE, x |-> x]
NaN == [nan |-> TRUE, x |-> 0]

\* the parcels table: the columns it has and its rows, every row holding a
\* cell for each of the four columns whether the table has the column or not
ParcelsDf(cols, rows) == [t |-> "df", v |-> [cols |-> cols, rows |-> rows]]
\* a dict from TileId to a set of row positions or None
IdxDict(d) == [t |-> "dict", v |-> d]
SetVal(S) == [t |-> "set", v |-> S]

RegressionCols == <<"market_value_proxy", "built_area_sqft", "land_area_sqft">>

\* (mapping.get(a, set()) or set()), mapping being _PARCEL_IDX_BY_TILE or {};
\* "raise" for a key that cannot be hashed
IdxOf(g, a) ==
    IF a.t # "str" THEN "raise"
    ELSE LET mapping == g.PARCEL_IDX_BY_TILE
         IN  IF mapping.t = "dict" /\ a.v \in DOMAIN mapping.v /\ mapping.v[a.v].t = "set"
             THEN "set" ELSE "empty"
IdxSet(g, a) ==
    IF IdxOf(g, a) = "set" THEN g.PARCEL_IDX_BY_TILE.v[a.v].v ELSE {}

\* the elements of a set of integers as a list (set iteration, here ascending;
\* nothing computed from the list depends on its order)
RECURSIVE ListOfSet(_)
ListOfSet(S) ==
    IF S = {} THEN <<>>
    ELSE LET m == CHOOSE x \in S : \A z \in S : x <= z
         IN  <<m>> \o ListOfSet(S \ {m})

\* mutant: the two index sets are concatenated, a parcel under both tiles twice
ConcatLists(sa, sb) == ListOfSet(sa) \o ListOfSet(sb)

\* line 71: list(sa | sb)
UnionList(sa, sb) == ListOfSet(sa \cup sb)

\* df.iloc[idxs]: "raise" for None or a position outside the table
IlocRaises(df, idxs) ==
    \/ df.t # "df"
    \/ \E i \in DOMAIN idxs : idxs[i] >= Len(df.v.rows) \/ idxs[i] < -Len(df.v.rows)
Iloc(df, idxs) ==
    [i \in DOMAIN idxs |->
        df.v.rows[IF idxs[i] >= 0 THEN idxs[i] + 1 ELSE Len(df.v.rows) + idxs[i] + 1]]

\* line 75: int(sub["adj_sale_price"].notna().sum()) if the column is there
NSales(cols, sub) ==
    IF "adj_sale_price" \in cols
    THEN Len(SelectSeq(sub, LAMBDA r : ~r.adj_sale_price.nan))
    ELSE 0

\* mutant: no row is dropped
DropNothing(sub) == sub

\* line 81: sub[cols].astype(float).dropna()
Dropna(sub) ==
    SelectSeq(sub, LAMBDA r : ~r.market_value_proxy.nan /\ ~r.built_area_sqft.nan
                              /\ ~r.land_area_sqft.nan)

\* the values of a column (0.0 standing in for a cell that is missing)
Values(rows, f) == [i \in DOMAIN rows |-> rows[i][f].x]

\* what the worker returns; `fitted` is history, not part of the tuple: whether
\* np.linalg.lstsq was called
Tuple5(a, b, r2, n_obs, n_sales, fitted) ==
    TupleVal([a |-> a, b |-> b, r2 |-> r2, n_obs |-> n_obs, n_sales |-> n_sales,
              fitted |-> fitted])

\* lines 84-99: the fit and its guards
WorkerR2(df, numerics) ==
    LET y == Values(df, "market_value_proxy")
        x1 == Values(df, "built_area_sqft")
        x2 == Values(df, "land_area_sqft")
        r2 == IF numerics = "raises" THEN Zero
              ELSE IF SsTotNotPositive(y, numerics) THEN Zero
              ELSE OneMinusRatio(y, x1, x2, numerics)
    IN  Clamp(IF ~IsFinite(r2) THEN Zero ELSE r2)

\* lines 69-100, the body of the outer try
score_edge_pair_body(g, pair, numerics) ==
    IF Len(pair) # 2 THEN Exc
    ELSE LET a == pair[1]
             b == pair[2]
         IN  IF IdxOf(g, a) = "raise" \/ IdxOf(g, b) = "raise" THEN Exc
             ELSE LET idxs == UnionList(IdxSet(g, a), IdxSet(g, b))
                  IN  IF Len(idxs) = 0 THEN Tuple5(a, b, Zero, 0, 0, FALSE)
                      ELSE IF IlocRaises(g.PARCELS_MIN_DF, idxs) THEN Exc
                      ELSE LET cols == g.PARCELS_MIN_DF.v.cols
                               sub == Iloc(g.PARCELS_MIN_DF, idxs)
                               n_sales == NSales(cols, sub)
                               df == Dropna(sub)
                           IN  IF n_sales < MinSales
                               THEN Tuple5(a, b, Zero, Len(sub), n_sales, FALSE)
                               ELSE IF \E i \in DOMAIN RegressionCols :
                                          RegressionCols[i] \notin cols
                               THEN Tuple5(a, b, Zero, Len(sub), n_sales, FALSE)
                               ELSE IF Len(df) < MinRows
                               THEN Tuple5(a, b, Zero, Len(sub), n_sales, FALSE)
                               ELSE Tuple5(a, b, WorkerR2(df, numerics), Len(df),
                                           n_sales, TRUE)

EmptyStr == PyStr(<<>>)

\* mutant: no outer try/except
ExceptLetOutScore(pair, r) == r

\* lines 101-107: the safe default, with "" for an item that does not unpack
ExceptSafeDefault(pair, r) ==
    IF r.t # "exc" THEN r
    ELSE IF Len(pair) = 2 THEN Tuple5(pair[1], pair[2], Zero, 0, 0, FALSE)
    ELSE Tuple5(EmptyStr, EmptyStr, Zero, 0, 0, FALSE)

score_edge_pair_worker(g, pair, numerics) ==
    ExceptSafeDefault(pair, score_edge_pair_body(g, pair, numerics))

-----------------------------------------------------------------------------
(* values the variables hold while the specification at hand does not use them *)

IdleInputs ==
    [parcels_path |-> "parcels.gpkg", parcels_stat |-> Stat(10, 100),
     tiles_path |-> "tiles.gpkg", tiles_stat |-> Stat(20, 200),
     buffer_feet |-> 50, crs_epsg_feet |-> PyNone, k_neighbors |-> 8,
     tiles |-> [tile_key |-> Column(<< <<97>>, <<98>> >>), key |-> NoColumn]]
NoSave == [saved |-> FALSE, inp |-> IdleInputs, hits |-> 0]
EmptyGraph == <<>>
EmptyTable == <<>>
NoResult == [done |-> FALSE, val |-> EmptyGraph]

IdleFiles ==
    /\ dir_ok = TRUE
    /\ file_meta = NoMeta
    /\ file_adj = NoRows
    /\ file_scores = NoRows
IdleRun ==
    /\ inputs = IdleInputs
    /\ pc = "idle"
    /\ saved_inputs = NoSave
NoRunResults ==
    /\ current_meta = PyNone
    /\ cached_meta = PyNone
    /\ df_adj = PyNone
    /\ df_scores = PyNone
    /\ valid_result = "none"
IdleRows ==
    /\ adjacency = EmptyGraph
    /\ edge_scores = EmptyTable
    /\ iter_order = <<>>
    /\ adj_out = NoResult
    /\ scores_out = NoResult

\* no save_cache call has written the meta file
NoWriter == [called |-> FALSE, meta |-> PyNone, adj |-> <<>>, scores |-> <<>>]
\* no pool has been started
NoPayload == [kind |-> "none"]
IdleSave == last_save = NoWriter
IdleSigs ==
    /\ tilesets = <<>>
    /\ sigs = <<>>
IdlePool ==
    /\ payload = NoPayload
    /\ wglobals = <<>>
    /\ work = {}
    /\ results = {}
    /\ ols_out = [done |-> FALSE, val |-> Zero]

-----------------------------------------------------------------------------
(* SpecValid: cache_valid applied to every pair of arguments of ValidArgs *)

ValidAlgos == {PyStr(ALGO_VERSION), PyStr("2025-01-01a")}
ValidParams == {ParamsDict(PyNum(b), PyNone, PyNum(8)) : b \in {50, 51}}
ValidSigs == {tiles_signature([tile_key |-> NoColumn, key |-> NoColumn]),
              tiles_signature(IdleInputs.tiles)}
ValidParcels ==
    {PyNone, PyList, Absent}
    \cup {file_fingerprint(p, st) : p \in {"parcels.gpkg", "moved/parcels.gpkg"},
                                    st \in {NoFile, Stat(10, 100)}}
ValidTiles ==
    {PyNone}
    \cup {file_fingerprint(p, Stat(20, 200)) : p \in {"tiles.gpkg", "moved/tiles.gpkg"}}
ValidArgs ==
    {PyNone, PyList}
    \cup {MetaDict(a, p, s, f, g) :
            a \in ValidAlgos, p \in ValidParams, s \in ValidSigs,
            f \in ValidParcels, g \in ValidTiles}

InitValid ==
    /\ cached_meta \in ValidArgs
    /\ current_meta \in ValidArgs
    /\ valid_result = "none"
    /\ df_adj = PyNone
    /\ df_scores = PyNone
    /\ IdleFiles /\ IdleRun /\ IdleRows /\ IdleSave /\ IdleSigs /\ IdlePool

CallCacheValid ==
    /\ valid_result = "none"
    /\ valid_result' = cache_valid(cached_meta, current_meta)
    /\ UNCHANGED <<inputs, dir_ok, file_meta, file_adj, file_scores, pc, current_meta,
                   cached_meta, df_adj, df_scores, saved_inputs,
                   adjacency, edge_scores, iter_order, adj_out, scores_out>>
    /\ UNCHANGED <<last_save, sigvars, poolvars>>

NextValid == CallCacheValid

SpecValid == InitValid /\ [][NextValid]_vars

-----------------------------------------------------------------------------
(* Spec: the orchestrating process runs make_cache_key, load_cache,          *)
(* cache_valid and, on a miss, save_cache; between two runs the source       *)
(* files, the tile set and the cache directory may change.                   *)

MaxHits == 2   \* cache hits counted since the last completed save

TileA == <<97>>
TileAB == <<97, 98>>
TileB == <<98>>

\* the inputs of a run
RunInputs ==
    {[IdleInputs EXCEPT !.parcels_stat = st, !.tiles = t, !.buffer_feet = b] :
        st \in {NoFile, Stat(10, 100), Stat(10, 101)},
        t \in {IdleInputs.tiles, [tile_key |-> NoColumn, key |-> NoColumn]},
        b \in {50, 51}}

\* what a run computes on a miss and hands to save_cache
RunResults ==
    { [adj |-> (TileA :> {TileB}) @@ (TileB :> {TileA}),
       sc |-> ({TileA, TileB} :> Es("record", PyNum(50), PyNum(4), PyNum(3))),
       order |-> <<TileA, TileB, TileAB>>],
      [adj |-> (TileA :> {TileAB}) @@ (TileAB :> {TileA, TileB}) @@ (TileB :> {TileAB}),
       sc |-> ({TileA, TileAB} :> Es("dict", PyNum(100), PyNum(5), PyNum(5)))
              @@ ({TileAB, TileB} :> Es("dict", PyNum(0), PyNum(2), PyNum(2))),
       order |-> <<TileB, TileAB, TileA>>] }

\* what a failed write leaves of a file
WriteFailed(f, left, empty) ==
    IF left = "unchanged" THEN f ELSE [st |-> "corrupt", data |-> empty]

\* save_cache, lines 93-130: the three files are written in turn; `out` is
\* "ok" or the write that raises, `left` what that write leaves of its file
WriteFiles(adj, sc, meta, order, out, left) ==
    /\ file_meta' = IF out = "raise_meta" THEN WriteFailed(file_meta, left, NoMeta.data)
                    ELSE MetaFile(meta)
    /\ file_adj' = IF out = "raise_meta" THEN file_adj
                   ELSE IF out = "raise_adj" THEN WriteFailed(file_adj, left, <<>>)
                   ELSE ParquetFile(adj_rows(adj, order))
    /\ file_scores' = IF out \in {"raise_meta", "raise_adj"} THEN file_scores
                      ELSE IF out = "raise_scores" THEN WriteFailed(file_scores, left, <<>>)
                      ELSE ParquetFile(score_rows(sc, order))

ResetRun ==
    /\ current_meta' = PyNone
    /\ cached_meta' = PyNone
    /\ df_adj' = PyNone
    /\ df_scores' = PyNone
    /\ valid_result' = "none"

Init ==
    /\ IdleFiles /\ IdleRun /\ NoRunResults /\ IdleRows
    /\ IdleSave /\ IdleSigs /\ IdlePool

\* a source file is rewritten or removed, or the tile set changes
ChangeInputs ==
    /\ pc = "idle"
    /\ \E i \in RunInputs \ {inputs} : inputs' = i
    /\ UNCHANGED <<dir_ok, file_meta, file_adj, file_scores, pc, current_meta,
                   cached_meta, df_adj, df_scores, valid_result, saved_inputs,
                   adjacency, edge_scores, iter_order, adj_out, scores_out>>
    /\ UNCHANGED <<last_save, sigvars, poolvars>>

\* a cache file is removed, damaged or made unreadable
TamperCache ==
    /\ pc = "idle"
    /\ \E f \in {"meta", "adj", "scores"}, st \in {"missing", "corrupt", "unreadable"} :
        /\ file_meta' = IF f = "meta" THEN [st |-> st, data |-> NoMeta.data] ELSE file_meta
        /\ file_adj' = IF f = "adj" THEN [st |-> st, data |-> <<>>] ELSE file_adj
        /\ file_scores' = IF f = "scores" THEN [st |-> st, data |-> <<>>] ELSE file_scores
    /\ saved_inputs' = NoSave
    /\ UNCHANGED <<inputs, dir_ok, pc, current_meta, cached_meta, df_adj, df_scores,
                   valid_result, adjacency, edge_scores, iter_order, adj_out, scores_out>>
    /\ UNCHANGED <<last_save, sigvars, poolvars>>

\* the cache directory stops or starts being creatable
ToggleDir ==
    /\ pc = "idle"
    /\ dir_ok' = ~dir_ok
    /\ UNCHANGED <<inputs, file_meta, file_adj, file_scores, pc, current_meta,
                   cached_meta, df_adj, df_scores, valid_result, saved_inputs,
                   adjacency, edge_scores, iter_order, adj_out, scores_out>>
    /\ UNCHANGED <<last_save, sigvars, poolvars>>

MakeCacheKey ==
    /\ pc = "idle"
    /\ current_meta' = make_cache_key(inputs)
    /\ pc' = "keyed"
    /\ UNCHANGED <<inputs, dir_ok, file_meta, file_adj, file_scores,
                   cached_meta, df_adj, df_scores, valid_result, saved_inputs,
                   adjacency, edge_scores, iter_order, adj_out, scores_out>>
    /\ UNCHANGED <<last_save, sigvars, poolvars>>

LoadCache ==
    /\ pc = "keyed"
    /\ LET r == load_cache(dir_ok, file_meta, file_adj, file_scores)
       IN  /\ pc' = IF r.raised THEN "load_raised" ELSE "loaded"
           /\ cached_meta' = r.meta
           /\ df_adj' = r.adj
           /\ df_scores' = r.scores
    /\ UNCHANGED <<inputs, dir_ok, file_meta, file_adj, file_scores, current_meta,
                   valid_result, saved_inputs,
                   adjacency, edge_scores, iter_order, adj_out, scores_out>>
    /\ UNCHANGED <<last_save, sigvars, poolvars>>

CacheValid ==
    /\ pc = "loaded"
    /\ valid_result' = cache_valid(cached_meta, current_meta)
    /\ pc' = "validated"
    /\ UNCHANGED <<inputs, dir_ok, file_meta, file_adj, file_scores, current_meta,
                   cached_meta, df_adj, df_scores, saved_inputs,
                   adjacency, edge_scores, iter_order, adj_out, scores_out>>
    /\ UNCHANGED <<last_save, sigvars, poolvars>>

\* a hit: the run uses what it loaded and ends
UseCache ==
    /\ pc = "validated"
    /\ valid_result = "True"
    /\ pc' = "idle"
    /\ ResetRun
    /\ saved_inputs' =
          IF saved_inputs.saved /\ saved_inputs.hits < MaxHits
          THEN [saved_inputs EXCEPT !.hits = @ + 1] ELSE saved_inputs
    /\ UNCHANGED <<inputs, dir_ok, file_meta, file_adj, file_scores,
                   adjacency, edge_scores, iter_order, adj_out, scores_out>>
    /\ UNCHANGED <<last_save, sigvars, poolvars>>

\* a miss: the run computes its results and calls save_cache
SaveCache ==
    /\ pc = "validated"
    /\ valid_result = "False"
    /\ \E r \in RunResults,
          out \in {"ok", "raise_meta", "raise_adj", "raise_scores"},
          left \in {"unchanged", "corrupt"} :
        /\ out = "ok" => left = "unchanged"
        /\ IF dir_ok
           THEN WriteFiles(r.adj, r.sc, current_meta, r.order, out, left)
           ELSE UNCHANGED <<file_meta, file_adj, file_scores>>
        /\ pc' = IF dir_ok /\ out = "ok" THEN "idle" ELSE "save_raised"
        /\ saved_inputs' = IF dir_ok /\ out = "ok"
                           THEN [saved |-> TRUE, inp |-> inputs, hits |-> 0]
                           ELSE NoSave
        /\ last_save' = IF dir_ok /\ out # "raise_meta"
                        THEN [called |-> TRUE, meta |-> current_meta,
                              adj |-> adj_rows(r.adj, r.order),
                              scores |-> score_rows(r.sc, r.order)]
                        ELSE last_save
    /\ ResetRun
    /\ UNCHANGED <<inputs, dir_ok, adjacency, edge_scores, iter_order, adj_out, scores_out>>
    /\ UNCHANGED <<sigvars, poolvars>>

\* the run ended on an exception; the next one starts afresh
Restart ==
    /\ pc \in {"load_raised", "save_raised"}
    /\ pc' = "idle"
    /\ ResetRun
    /\ UNCHANGED <<inputs, dir_ok, file_meta, file_adj, file_scores, saved_inputs,
                   adjacency, edge_scores, iter_order, adj_out, scores_out>>
    /\ UNCHANGED <<last_save, sigvars, poolvars>>

Next ==
    \/ ChangeInputs \/ TamperCache \/ ToggleDir
    \/ MakeCacheKey \/ LoadCache \/ CacheValid \/ UseCache \/ SaveCache \/ Restart

Spec == Init /\ [][Next]_vars

-----------------------------------------------------------------------------
(* claims about cache_valid, checked under SpecValid *)

\* the fields cache_valid compares: <<key>> or <<key, key of the entry>>
ComparedFields ==
    { <<"algo_version", "">>,
      <<"params", "buffer_feet">>, <<"params", "crs_epsg_feet">>,
      <<"params", "k_neighbors">>,
      <<"tiles_sig", "n_tiles">>, <<"tiles_sig", "keys_hash">>,
      <<"parcels", "size">>, <<"parcels", "mtime">>,
      <<"tiles", "size">>, <<"tiles", "mtime">> }

\* values a field is changed to
ChangedValues ==
    {PyNone, PyStr(ALGO_VERSION), PyStr("2025-01-01a"), PyStr("sha256:a")}
    \cup {PyNum(n) : n \in {1, 2, 8, 9, 10, 11, 20, 21, 50, 51, 100, 101, 200, 201, 2263}}

HasField(m, f) ==
    /\ IsDict(m)
    /\ m.v[f[1]] # Absent
    /\ f[2] # "" => IsDict(m.v[f[1]])
FieldValue(m, f) == IF f[2] = "" THEN m.v[f[1]] ELSE m.v[f[1]].v[f[2]]
SetField(m, f, x) ==
    IF f[2] = "" THEN PyDict([m.v EXCEPT ![f[1]] = x])
    ELSE PyDict([m.v EXCEPT ![f[1]] = PyDict([m.v[f[1]].v EXCEPT ![f[2]] = x])])

BadEntry(e) == e # Absent /\ ~IsDict(e)
Malformed(m) == ~IsDict(m) \/ BadEntry(m.v.parcels) \/ BadEntry(m.v.tiles)
WellFormed(m) == IsDict(m) /\ IsDict(m.v.parcels) /\ IsDict(m.v.tiles)

\* C1: whenever cache_valid returned True, changing exactly one compared field
\* (algo_version, a parameter, n_tiles, keys_hash, a file's size or mtime) of
\* either fingerprint to another value makes cache_valid return False.
C1_StrictEquality ==
    valid_result = "True" =>
        \A f \in ComparedFields, x \in ChangedValues :
            /\ (HasField(cached_meta, f) /\ x # FieldValue(cached_meta, f))
                  => cache_valid(SetField(cached_meta, f, x), current_meta) = "False"
            /\ (HasField(current_meta, f) /\ x # FieldValue(current_meta, f))
                  => cache_valid(cached_meta, SetField(current_meta, f, x)) = "False"

\* cache_valid returned True on two complete fingerprints of files that were stat'ed
C1_Witness ==
    /\ valid_result = "True"
    /\ \A f \in ComparedFields : HasField(cached_meta, f) /\ HasField(current_meta, f)
    /\ cached_meta.v.parcels.v.mtime = PyNum(100)
    /\ cached_meta.v.tiles.v.mtime = PyNum(200)

\* C5: with an argument that is None or no mapping, or whose parcels/tiles entry
\* is None or no mapping, cache_valid returns False and does not raise.
C5_FailSafe ==
    (valid_result # "none" /\ (Malformed(cached_meta) \/ Malformed(current_meta)))
        => valid_result = "False"

\* cache_valid returned False because the comparison raised on a null
\* parcels entry, every conjunct before it being true
C5_Witness ==
    /\ valid_result = "False"
    /\ IsDict(cached_meta) /\ IsDict(current_meta)
    /\ cached_meta.v.parcels = PyNone
    /\ AndChain(ValidSteps(cached_meta, current_meta)) = "raise"

AgreeCompared(a, b) ==
    /\ a.v.algo_version = b.v.algo_version
    /\ a.v.params = b.v.params
    /\ a.v.tiles_sig = b.v.tiles_sig
    /\ \A e \in {"parcels", "tiles"}, k \in {"size", "mtime"} : a.v[e].v[k] = b.v[e].v[k]

\* C6: two fingerprints that agree on algo_version, params, tiles_sig and both
\* files' size and mtime are valid against each other, whatever their paths.
C6_PathExcluded ==
    (/\ valid_result # "none"
     /\ WellFormed(cached_meta) /\ WellFormed(current_meta)
     /\ AgreeCompared(cached_meta, current_meta))
        => valid_result = "True"

\* cache_valid returned True although both files' paths differ
C6_Witness ==
    /\ valid_result = "True"
    /\ WellFormed(cached_meta) /\ WellFormed(current_meta)
    /\ cached_meta.v.parcels.v.path # current_meta.v.parcels.v.path
    /\ cached_meta.v.tiles.v.path # current_meta.v.tiles.v.path

-----------------------------------------------------------------------------
(* claims about the run, checked under Spec *)

\* a fingerprint with a null file identity or a null tile signature
Degraded(m) ==
    \/ m.v.parcels.v.size = PyNone \/ m.v.parcels.v.mtime = PyNone
    \/ m.v.tiles.v.size = PyNone \/ m.v.tiles.v.mtime = PyNone
    \/ m.v.tiles_sig.v.n_tiles = PyNone \/ m.v.tiles_sig.v.keys_hash = PyNone

\* C2: when the fingerprint of the run has a null size/mtime or a null tile
\* signature, cache_valid returns False against every cached fingerprint.
C2_DegradedMisses ==
    (pc = "validated" /\ Degraded(current_meta)) => valid_result = "False"

\* C3: after a save_cache that completed, while the inputs of make_cache_key
\* are the ones saved and the cache files are left alone, load_cache returns the
\* whole bundle and cache_valid accepts its fingerprint, run after run.
C3_RepeatedRunsHit ==
    (saved_inputs.saved /\ saved_inputs.inp = inputs) =>
        /\ pc = "loaded" =>
              /\ cached_meta # PyNone /\ df_adj # PyNone /\ df_scores # PyNone
              /\ cache_valid(cached_meta, current_meta) = "True"
        /\ pc = "validated" => valid_result = "True"

\* the run validated its cache again after MaxHits hits since the save
C3_Witness ==
    /\ pc = "validated"
    /\ saved_inputs.saved /\ saved_inputs.inp = inputs
    /\ saved_inputs.hits = MaxHits
    /\ ~Degraded(current_meta)
    /\ valid_result = "True"

\* C4: load_cache never raises, and returns three values that are all None
\* or all not None.
C4_AllOrNothing ==
    /\ pc # "load_raised"
    /\ pc = "loaded" =>
          \/ cached_meta = PyNone /\ df_adj = PyNone /\ df_scores = PyNone
          \/ cached_meta # PyNone /\ df_adj # PyNone /\ df_scores # PyNone

-----------------------------------------------------------------------------
(* SpecRows: save_cache writes a graph and a score table, load_cache reads   *)
(* the files back and df_to_adjacency / df_to_edge_scores rebuild them; or   *)
(* df_to_adjacency / df_to_edge_scores is given a frame that save_cache did  *)
(* not write.                                                                *)

MaxRows == 2   \* rows of a frame that save_cache did not write

EmptyTile == <<>>
AdjTiles == {TileA, TileAB, TileB}
ScoreTiles == {EmptyTile, TileA, TileAB, TileB}

\* the orders in which the elements of S can be iterated
Perms(S) == {p \in [1..Cardinality(S) -> S] : \A x \in S : \E i \in DOMAIN p : p[i] = x}

\* every mapping from some of the tiles to sets of tiles
Graphs == UNION {[K -> SUBSET AdjTiles] : K \in SUBSET AdjTiles}

EsValues ==
    { Es("record", PyNum(50), PyNum(4), PyNum(3)),
      Es("dict", PyNum(-25), PyNum(7), PyNum(5)),
      Es("record", PyNone, PyNum(4), PyNum(3)),
      Es("dict", Absent, Absent, PyNum(2)) }
ScoreKeys == {{EmptyTile, TileA}, {TileA, TileAB}, {TileAB, TileB}, {TileA}}
Tables == UNION {[K -> EsValues] : K \in SUBSET ScoreKeys}

AdjCells == {StrCell(x) : x \in AdjTiles} \cup {NullCell}
AdjRowValues == [tile_a : AdjCells, tile_b : AdjCells]
ForeignFrames ==
    {PyNone} \cup {PyDf(rows) : rows \in UNION {[1..n -> AdjRowValues] : n \in 0..MaxRows}}

\* the cells of a score frame that save_cache did not write: an endpoint is
\* a str (the empty one included) or null
EndpointCells == {StrCell(x) : x \in {EmptyTile, TileA, TileB}} \cup {NullCell}
ScoreNumbers == {[r2 |-> NumCell(50), n_obs |-> NumCell(4), n_sales |-> NumCell(3)],
                 [r2 |-> NumCell(-25), n_obs |-> NumCell(7), n_sales |-> NumCell(5)]}
ScoreRowValues ==
    {[tile_a |-> a, tile_b |-> b, r2 |-> n.r2, n_obs |-> n.n_obs, n_sales |-> n.n_sales] :
        a \in EndpointCells, b \in EndpointCells, n \in ScoreNumbers}
ForeignScores ==
    {PyDf(rows) : rows \in UNION {[1..n -> ScoreRowValues] : n \in 0..MaxRows}}

InitRows ==
    /\ IdleFiles /\ inputs = IdleInputs /\ saved_inputs = NoSave
    /\ IdleSave /\ IdleSigs /\ IdlePool
    /\ current_meta = make_cache_key(IdleInputs)
    /\ cached_meta = PyNone
    /\ valid_result = "none"
    /\ adj_out = NoResult
    /\ scores_out = NoResult
    /\ \/ /\ pc = "start"
          /\ adjacency \in Graphs
          /\ edge_scores = EmptyTable
          /\ iter_order \in Perms(AdjTiles)
          /\ df_adj = PyNone
          /\ df_scores = PyNone
       \/ /\ pc = "start"
          /\ adjacency = EmptyGraph
          /\ edge_scores \in Tables
          /\ iter_order \in Perms(ScoreTiles)
          /\ df_adj = PyNone
          /\ df_scores = PyNone
       \/ /\ pc = "loaded"
          /\ adjacency = EmptyGraph
          /\ edge_scores = EmptyTable
          /\ iter_order = <<>>
          /\ df_adj \in ForeignFrames
          /\ df_scores = PyNone
       \/ /\ pc = "loaded"
          /\ adjacency = EmptyGraph
          /\ edge_scores = EmptyTable
          /\ iter_order = <<>>
          /\ df_adj = PyNone
          /\ df_scores \in ForeignScores

SaveRows ==
    /\ pc = "start"
    /\ WriteFiles(adjacency, edge_scores, current_meta, iter_order, "ok", "unchanged")
    /\ pc' = "saved"
    /\ UNCHANGED <<inputs, dir_ok, current_meta, cached_meta, df_adj, df_scores,
                   valid_result, saved_inputs, adjacency, edge_scores, iter_order,
                   adj_out, scores_out>>
    /\ UNCHANGED <<last_save, sigvars, poolvars>>

LoadRows ==
    /\ pc = "saved"
    /\ LET r == load_cache(dir_ok, file_meta, file_adj, file_scores)
       IN  /\ cached_meta' = r.meta
           /\ df_adj' = r.adj
           /\ df_scores' = r.scores
    /\ pc' = "loaded"
    /\ UNCHANGED <<inputs, dir_ok, file_meta, file_adj, file_scores, current_meta,
                   valid_result, saved_inputs, adjacency, edge_scores, iter_order,
                   adj_out, scores_out>>
    /\ UNCHANGED <<last_save, sigvars, poolvars>>

DfToAdjacency ==
    /\ pc = "loaded"
    /\ ~adj_out.done
    /\ adj_out' = [done |-> TRUE, val |-> df_to_adjacency(df_adj)]
    /\ UNCHANGED <<inputs, dir_ok, file_meta, file_adj, file_scores, pc, current_meta,
                   cached_meta, df_adj, df_scores, valid_result, saved_inputs,
                   adjacency, edge_scores, iter_order, scores_out>>
    /\ UNCHANGED <<last_save, sigvars, poolvars>>

DfToEdgeScores ==
    /\ pc = "loaded"
    /\ ~scores_out.done
    /\ scores_out' = [done |-> TRUE, val |-> df_to_edge_scores(df_scores)]
    /\ UNCHANGED <<inputs, dir_ok, file_meta, file_adj, file_scores, pc, current_meta,
                   cached_meta, df_adj, df_scores, valid_result, saved_inputs,
                   adjacency, edge_scores, iter_order, adj_out>>
    /\ UNCHANGED <<last_save, sigvars, poolvars>>

NextRows == SaveRows \/ LoadRows \/ DfToAdjacency \/ DfToEdgeScores

SpecRows == InitRows /\ [][NextRows]_vars

-----------------------------------------------------------------------------
(* claims about the saved rows and the rebuilt tables, checked under SpecRows *)

Symmetric(adj) ==
    \A a \in DOMAIN adj : \A b \in adj[a] : b \in DOMAIN adj /\ a \in adj[b]
NoSelfLoops(adj) == \A a \in DOMAIN adj : a \notin adj[a]

\* save_cache has written the files
Saved == pc \in {"saved", "loaded"} /\ file_adj.st = "ok"
\* df_to_adjacency was given the rows save_cache wrote
AdjRebuilt == Saved /\ pc = "loaded" /\ adj_out.done
\* df_to_edge_scores was given the rows save_cache wrote
ScoresRebuilt == Saved /\ pc = "loaded" /\ scores_out.done

\* the keys of adj that have a neighbour
Connected(adj) == {k \in DOMAIN adj : adj[k] # {}}

\* C7 as claimed: a symmetric graph without self-loops is rebuilt as the
\* same mapping, key set included.
C7_RoundTripExact ==
    (AdjRebuilt /\ Symmetric(adjacency) /\ NoSelfLoops(adjacency))
        => adj_out.val = adjacency

\* C7 as amended: a symmetric graph without self-loops is rebuilt with the
\* keys that have a neighbour, each with its neighbour set, whatever the order
\* of iteration; a key whose neighbour set is empty is not rebuilt.
C7_RoundTripEdges ==
    (AdjRebuilt /\ Symmetric(adjacency) /\ NoSelfLoops(adjacency))
        => /\ DOMAIN adj_out.val = Connected(adjacency)
           /\ \A k \in Connected(adjacency) : adj_out.val[k] = adjacency[k]

\* a graph of three tiles and two edges, iterated from the last tile, was rebuilt
C7_Witness ==
    /\ AdjRebuilt /\ Symmetric(adjacency) /\ NoSelfLoops(adjacency)
    /\ Cardinality(Connected(adjacency)) = 3
    /\ Len(df_adj.v) = 2
    /\ iter_order[1] = TileB

\* how the score of a key comes back: its three numbers
SameScore(es, back) ==
    /\ es.r2 = PyNum(back.r2)
    /\ es.n_obs = PyNum(back.n_obs)
    /\ es.n_sales = PyNum(back.n_sales)
\* a table keyed by pairs of distinct tiles, every score holding its three numbers
PairTable(table) ==
    \A k \in DOMAIN table :
        /\ Cardinality(k) = 2
        /\ \A f \in {"r2", "n_obs", "n_sales"} : table[k][f].t = "num"

\* C8 as claimed: a table keyed by pairs of distinct str TileIds is rebuilt
\* with the same keys and the same r2, n_obs and n_sales.
C8_RoundTripAnyIds ==
    (ScoresRebuilt /\ PairTable(edge_scores))
        => /\ DOMAIN scores_out.val = DOMAIN edge_scores
           /\ \A k \in DOMAIN edge_scores : SameScore(edge_scores[k], scores_out.val[k])

\* C8 as amended: a table keyed by pairs of distinct, non-empty str TileIds
\* is rebuilt with the same keys and the same r2, n_obs and n_sales, the scores
\* being objects with attributes or dicts.
C8_RoundTripNonEmptyIds ==
    (ScoresRebuilt /\ PairTable(edge_scores)
        /\ \A k \in DOMAIN edge_scores : EmptyTile \notin k)
        => /\ DOMAIN scores_out.val = DOMAIN edge_scores
           /\ \A k \in DOMAIN edge_scores : SameScore(edge_scores[k], scores_out.val[k])

\* a table of two scores, one an object and one a dict, was rebuilt
C8_Witness ==
    /\ ScoresRebuilt /\ PairTable(edge_scores)
    /\ DOMAIN edge_scores = {{TileA, TileAB}, {TileAB, TileB}}
    /\ edge_scores[{TileA, TileAB}].kind = "dict"
    /\ edge_scores[{TileAB, TileB}].kind = "record"
    /\ iter_order[1] = TileB

\* the rows (a, b) of the adjacency file
RowCount(a, b) ==
    Cardinality({i \in DOMAIN file_adj.data :
        file_adj.data[i].tile_a = StrCell(a) /\ file_adj.data[i].tile_b = StrCell(b)})
Linked(adj, a, b) ==
    \/ a \in DOMAIN adj /\ b \in adj[a]
    \/ b \in DOMAIN adj /\ a \in adj[b]
UnderFirst(adj, a, b) == a \in DOMAIN adj /\ b \in adj[a]

\* C9 as claimed: every pair of distinct tiles linked under either endpoint
\* is in exactly one row, written with tile_a < tile_b; no other row is written.
C9_EveryLinkedPairOnce ==
    Saved =>
        \A a \in AdjTiles, b \in AdjTiles :
            /\ StrLess(a, b) =>
                  /\ RowCount(a, b) = (IF Linked(adjacency, a, b) THEN 1 ELSE 0)
                  /\ RowCount(b, a) = 0
            /\ RowCount(a, a) = 0

\* C9 as amended: a pair of distinct tiles is in exactly one row, written
\* with tile_a < tile_b, when the edge is recorded under its lexicographically
\* smaller endpoint (as every edge of a symmetric mapping is), and in no row
\* otherwise; no other row is written.
C9_PairUnderSmallerOnce ==
    Saved =>
        \A a \in AdjTiles, b \in AdjTiles :
            /\ StrLess(a, b) =>
                  /\ RowCount(a, b) = (IF UnderFirst(adjacency, a, b) THEN 1 ELSE 0)
                  /\ RowCount(b, a) = 0
            /\ RowCount(a, a) = 0

\* a mapping with one edge under both endpoints and one under its smaller
\* endpoint only was saved
C9_Witness ==
    /\ Saved
    /\ Len(file_adj.data) = 2
    /\ \E a \in AdjTiles, b \in AdjTiles :
          StrLess(a, b) /\ UnderFirst(adjacency, a, b) /\ UnderFirst(adjacency, b, a)
    /\ \E a \in AdjTiles, b \in AdjTiles :
          StrLess(a, b) /\ UnderFirst(adjacency, a, b) /\ ~UnderFirst(adjacency, b, a)

\* the frame holds a row whose two endpoints are the same str
HasLoopRow(df) ==
    df # PyNone /\ \E i \in DOMAIN df.v : StrOf(df.v[i].tile_a) = StrOf(df.v[i].tile_b)

\* C10 as claimed: whatever the rows, the graph df_to_adjacency builds is
\* symmetric and no tile is in its own adjacency set.
C10_SymmetricIrreflexive ==
    adj_out.done => Symmetric(adj_out.val) /\ NoSelfLoops(adj_out.val)

\* C10 as amended: whatever the rows, the graph df_to_adjacency builds is
\* symmetric, and empty for a null or empty frame; no tile is in its own
\* adjacency set exactly when no row has tile_a equal to tile_b.
C10_SymmetricLoopsFromRows ==
    adj_out.done =>
        /\ Symmetric(adj_out.val)
        /\ NoSelfLoops(adj_out.val) <=> ~HasLoopRow(df_adj)
        /\ (df_adj = PyNone \/ Len(df_adj.v) = 0) => adj_out.val = <<>>

\* df_to_adjacency was given two rows that save_cache did not write, naming
\* three tiles and no tile twice in a row
C10_Witness ==
    /\ adj_out.done
    /\ ~Saved
    /\ df_adj # PyNone /\ Len(df_adj.v) = MaxRows
    /\ ~HasLoopRow(df_adj)
    /\ Cardinality(DOMAIN adj_out.val) = 3

\* the row names both endpoints: neither is null nor the empty str
BothEndpoints(row) ==
    /\ row.tile_a.t = "str" /\ row.tile_a.v # <<>>
    /\ row.tile_b.t = "str" /\ row.tile_b.v # <<>>
\* the last row of the frame that names the endpoints of k
LastRowOf(rows, k) ==
    rows[CHOOSE i \in DOMAIN rows :
            /\ BothEndpoints(rows[i]) /\ {rows[i].tile_a.v, rows[i].tile_b.v} = k
            /\ \A j \in DOMAIN rows :
                  (BothEndpoints(rows[j]) /\ {rows[j].tile_a.v, rows[j].tile_b.v} = k)
                      => j <= i]

\* C11: a row of the score frame whose tile_a or tile_b is null or the empty
\* str contributes no entry to df_to_edge_scores' result; every other row
\* contributes the entry keyed by {tile_a, tile_b}; no key of the result holds
\* a placeholder for a missing endpoint.
C11_IncompleteRowsSkipped ==
    (scores_out.done /\ df_scores # PyNone) =>
        LET rows == df_scores.v
            named == {{rows[i].tile_a.v, rows[i].tile_b.v} :
                        i \in {j \in DOMAIN rows : BothEndpoints(rows[j])}}
        IN  /\ DOMAIN scores_out.val = named
            /\ \A k \in named :
                  LET row == LastRowOf(rows, k)
                  IN  scores_out.val[k] = [r2 |-> row.r2.v, n_obs |-> row.n_obs.v,
                                           n_sales |-> row.n_sales.v]
            /\ \A k \in DOMAIN scores_out.val : NoneText \notin k

-----------------------------------------------------------------------------
(* SpecPool: a parent process starts a pool of worker processes over a       *)
(* payload and a work list; every worker runs its initializer (when the pool *)
(* was given one) and then takes items off the list one at a time; the       *)
(* results are collected.  ols_r2 is applied to the complete rows of the     *)
(* payload's table.                                                          *)

R1 == Rect(0, 0, 2, 2)
R2 == Rect(1, 1, 3, 3)   \* overlaps R1 and R3
R3 == Rect(2, 0, 4, 2)   \* shares a boundary segment with R1
GeomValues == {R1, R2, R3, InvalidGeom, NoGeom}
GeomLists ==
    {ListVal(xs) : xs \in UNION {[1..n -> GeomValues] : n \in {0, 1, 2}}}
    \cup {ListVal(<<R1, R2, R3>>), ListVal(<<R1, InvalidGeom, R2>>),
          ListVal(<<R3, NoGeom, R1>>)}
\* candidate pairs and items that are no pair
PairItems == {<<i, j>> : i \in -1..2, j \in -1..2} \cup {<<0>>, <<0, 1, 2>>}

AllCols == {"adj_sale_price", "market_value_proxy", "built_area_sqft", "land_area_sqft"}
\* built_area_sqft and land_area_sqft of the four parcels
Designs ==
    { << [b |-> Num(1), l |-> Num(0)], [b |-> Num(0), l |-> Num(1)],
         [b |-> Num(1), l |-> Num(1)], [b |-> Num(2), l |-> Num(1)] >>,
      << [b |-> Num(1), l |-> Num(1)], [b |-> Num(1), l |-> Num(1)],
         [b |-> Num(1), l |-> Num(1)], [b |-> Num(1), l |-> Num(1)] >>,
      << [b |-> Num(1), l |-> Num(0)], [b |-> Num(0), l |-> Num(1)],
         [b |-> Num(1), l |-> Num(1)], [b |-> Num(2), l |-> NaN] >> }
\* adj_sale_price and market_value_proxy of a parcel
SaleY == { [sale |-> Num(1), y |-> Num(0)], [sale |-> Num(1), y |-> Num(2)],
           [sale |-> NaN, y |-> Num(1)], [sale |-> Num(1), y |-> NaN] }
ParcelRow(sy, x) ==
    [adj_sale_price |-> sy.sale, market_value_proxy |-> sy.y,
     built_area_sqft |-> x.b, land_area_sqft |-> x.l]
DataTables ==
    {ParcelsDf(AllCols, [i \in 1..4 |-> ParcelRow(f[i], d[i])]) :
        f \in [1..4 -> SaleY], d \in Designs}
GoodRows ==
    << [adj_sale_price |-> Num(1), market_value_proxy |-> Num(0),
        built_area_sqft |-> Num(1), land_area_sqft |-> Num(0)],
       [adj_sale_price |-> Num(1), market_value_proxy |-> Num(2),
        built_area_sqft |-> Num(0), land_area_sqft |-> Num(1)],
       [adj_sale_price |-> Num(1), market_value_proxy |-> Num(0),
        built_area_sqft |-> Num(1), land_area_sqft |-> Num(1)],
       [adj_sale_price |-> NaN, market_value_proxy |-> Num(1),
        built_area_sqft |-> Num(2), land_area_sqft |-> Num(1)] >>
ShapeTables ==
    {PyNone} \cup
    {ParcelsDf(c, GoodRows) :
        c \in {AllCols, AllCols \ {"adj_sale_price"}, AllCols \ {"land_area_sqft"}}}

MapOverlap == IdxDict((TileA :> SetVal({0, 1})) @@ (TileB :> SetVal({1, 2, 3})))
MapSmall == IdxDict((TileA :> SetVal({0, 1, 2})) @@ (TileB :> PyNone))
MapOutside == IdxDict((TileA :> SetVal({0, 7})) @@ (TileB :> SetVal({1})))
MapEmpty == IdxDict((TileA :> PyNone) @@ (TileB :> SetVal({})))
EdgeItems ==
    { <<PyStr(TileA), PyStr(TileB)>>, <<PyStr(TileA), PyStr(TileAB)>>,
      <<PyStr(TileA)>>, <<PyStr(TileA), PyStr(TileB), PyStr(TileA)>>,
      <<PyStr(TileA), PyList>> }

\* the work lists of one or two items
OneOrTwo(S) == {W \in SUBSET S : Cardinality(W) \in {1, 2}}

Payload(kind, with_init, nworkers, geoms, df, idx, numerics, items) ==
    [kind |-> kind, with_init |-> with_init, nworkers |-> nworkers, geoms |-> geoms,
     df |-> df, idx |-> idx, numerics |-> numerics, items |-> items]

Payloads ==
    \* candidate pairs over every list of geometries
    {Payload("adjacency", i, 1, g, PyNone, PyNone, "exact", w) :
        i \in BOOLEAN, g \in GeomLists \cup {PyNone}, w \in OneOrTwo(PairItems)}
    \cup
    \* one pair of tiles over every parcels table
    {Payload("edges", TRUE, 1, PyNone, d, m, n, {<<PyStr(TileA), PyStr(TileB)>>}) :
        d \in DataTables, m \in {MapOverlap, MapSmall},
        n \in {"exact", "unstable", "nonfinite", "raises"}}
    \cup
    \* every kind of work item over every kind of table and mapping
    {Payload("edges", i, 1, PyNone, d, m, n, w) :
        i \in BOOLEAN, d \in ShapeTables,
        m \in {MapOverlap, MapSmall, MapOutside, MapEmpty, PyNone},
        n \in {"exact", "unstable"}, w \in OneOrTwo(EdgeItems)}
    \cup
    \* pools of one, two and eight workers
    {Payload("adjacency", TRUE, k, g, PyNone, PyNone, "exact",
             {<<0, 1>>, <<0, 2>>, <<1, 2>>}) :
        k \in {1, 2, 8}, g \in {ListVal(<<R1, R2, R3>>), ListVal(<<R1, InvalidGeom, R2>>)}}
    \cup
    {Payload("edges", TRUE, k, PyNone, ParcelsDf(AllCols, GoodRows), m, "exact",
             {<<PyStr(TileA), PyStr(TileB)>>, <<PyStr(TileB), PyStr(TileAB)>>,
              <<PyStr(TileA)>>}) :
        k \in {1, 2, 8}, m \in {MapOverlap, MapOutside}}

InitPool ==
    /\ IdleFiles /\ IdleRun /\ NoRunResults /\ IdleRows /\ IdleSave /\ IdleSigs
    /\ payload \in Payloads
    /\ wglobals = [w \in 1..payload.nworkers |-> [started |-> FALSE, g |-> ModuleGlobals]]
    /\ work = payload.items
    /\ results = {}
    /\ ols_out = [done |-> FALSE, val |-> Zero]

framevars == <<inputs, dir_ok, file_meta, file_adj, file_scores, pc, current_meta,
               cached_meta, df_adj, df_scores, valid_result, saved_inputs,
               adjacency, edge_scores, iter_order, adj_out, scores_out,
               last_save, tilesets, sigs>>

\* a worker process starts: it imports the module and runs the initializer
\* the pool was given
StartWorker(w) ==
    /\ ~wglobals[w].started
    /\ wglobals' = [wglobals EXCEPT ![w] =
          [started |-> TRUE,
           g |-> IF ~payload.with_init THEN ModuleGlobals
                 ELSE IF payload.kind = "adjacency"
                 THEN init_pool_buffered(ModuleGlobals, payload.geoms)
                 ELSE init_pool_edges(ModuleGlobals, payload.df, payload.idx)]]
    /\ UNCHANGED <<payload, work, results, ols_out, framevars>>

\* a started worker takes an item off the list, runs the worker function on
\* it and hands the result back
RunItem(w) ==
    /\ wglobals[w].started
    /\ \E item \in work :
        /\ work' = work \ {item}
        /\ results' = results \cup
              {[item |-> item,
                out |-> IF payload.kind = "adjacency"
                        THEN pair_overlaps_area(wglobals[w].g, item)
                        ELSE score_edge_pair_worker(wglobals[w].g, item,
                                                    payload.numerics)]}
    /\ UNCHANGED <<payload, wglobals, ols_out, framevars>>

\* ols_r2(y, X) on the rows of the table that are complete in the three columns
OlsR2 ==
    /\ payload.kind = "edges"
    /\ ~ols_out.done
    /\ payload.df.t = "df"
    /\ \A i \in DOMAIN RegressionCols : RegressionCols[i] \in payload.df.v.cols
    /\ LET rows == Dropna(payload.df.v.rows)
       IN  /\ Len(rows) > 0
           /\ ols_out' = [done |-> TRUE,
                          val |-> ols_r2(Values(rows, "market_value_proxy"),
                                         Values(rows, "built_area_sqft"),
                                         Values(rows, "land_area_sqft"),
                                         payload.numerics)]
    /\ UNCHANGED <<payload, wglobals, work, results, framevars>>

NextPool ==
    \/ \E w \in DOMAIN wglobals : StartWorker(w)
    \/ \E w \in DOMAIN wglobals : RunItem(w)
    \/ OlsR2

SpecPool == InitPool /\ [][NextPool]_vars

-----------------------------------------------------------------------------
(* claims about the worker functions, checked under SpecPool *)

\* the globals a worker of this pool holds once started
HeldGeoms == IF payload.with_init THEN payload.geoms ELSE PyNone
HeldDf == IF payload.with_init THEN payload.df ELSE PyNone
HeldIdx == IF payload.with_init THEN payload.idx ELSE PyNone

\* position i names an element of the list xs
InList(xs, i) == xs.t = "seq" /\ -Len(xs.v) <= i /\ i < Len(xs.v)
Elem(xs, i) == xs.v[IF i >= 0 THEN i + 1 ELSE Len(xs.v) + i + 1]
\* two rectangles have interior points in common
Overlap(p, q) ==
    /\ p.g = "rect" /\ q.g = "rect"
    /\ Max2(p.x1, q.x1) < Min2(p.x2, q.x2)
    /\ Max2(p.y1, q.y1) < Min2(p.y2, q.y2)
\* the item is a pair of positions whose intersection is computed without
\* error and has positive area
ComputedOverlap(xs, item) ==
    /\ Len(item) = 2
    /\ InList(xs, item[1]) /\ InList(xs, item[2])
    /\ Overlap(Elem(xs, item[1]), Elem(xs, item[2]))

\* C12: the candidate pairs for which _pair_overlaps_area returns a non-null
\* result are exactly those whose intersection is computed without error and
\* has area > 0, and the result is then the pair; for every other item
\* (zero area, a failing geometry operation, a bad index, an item that is no
\* pair) it returns None; it never raises, and the result of an item does not
\* depend on the other items of the batch.
C12_AdjacentIffPositiveArea ==
    payload.kind = "adjacency" =>
        \A r \in results :
            /\ r.out.t # "exc"
            /\ ComputedOverlap(HeldGeoms, r.item) => r.out = TupleVal(r.item)
            /\ ~ComputedOverlap(HeldGeoms, r.item) => r.out = PyNone

\* a batch of two pairs over three geometries is done: one pair overlaps, the
\* other has a geometry on which intersection raises
C12_Witness ==
    /\ payload.kind = "adjacency" /\ payload.with_init
    /\ payload.geoms = ListVal(<<R1, InvalidGeom, R2>>)
    /\ work = {}
    /\ results = {[item |-> <<0, 1>>, out |-> PyNone],
                  [item |-> <<0, 2>>, out |-> TupleVal(<<0, 2>>)]}

\* what one process holding the payload returns for an item
PayloadGlobals ==
    [BUFFERED_GEOMS |-> payload.geoms, PARCELS_MIN_DF |-> payload.df,
     PARCEL_IDX_BY_TILE |-> payload.idx]
ResultOf(item) ==
    [item |-> item,
     out |-> IF payload.kind = "adjacency" THEN pair_overlaps_area(PayloadGlobals, item)
             ELSE score_edge_pair_worker(PayloadGlobals, item, payload.numerics)]

\* C13: with every worker initialised before it runs an item, the results
\* collected are those of the items run so far, each the value one process
\* holding the payload returns for it; so once the batch is complete the
\* adjacent pairs and the mapping pair -> (r2, n_obs, n_sales) are the same
\* for one, two and eight workers and for every assignment of items to
\* workers and every interleaving.
C13_SameResultsAnySchedule ==
    payload.with_init =>
        /\ results = {ResultOf(item) : item \in payload.items \ work}
        /\ work = {} => \A item \in payload.items :
                            Cardinality({r \in results : r.item = item}) = 1

\* a batch of three items is complete in a pool of eight workers, not all of
\* them started, and holds an adjacent pair or a fitted score
C13_Witness ==
    /\ payload.with_init /\ payload.nworkers = 8
    /\ work = {} /\ Cardinality(results) = 3
    /\ \E w \in DOMAIN wglobals : ~wglobals[w].started
    /\ Cardinality({w \in DOMAIN wglobals : wglobals[w].started}) >= 3
    /\ \E r \in results : r.out.t = "tuple" /\ r.out # PyNone
                          /\ (payload.kind = "edges" => r.out.v.fitted)

\* the item is a pair of str identifiers
PairOfStr(item) == Len(item) = 2 /\ item[1].t = "str" /\ item[2].t = "str"
\* the positions the workers' mapping holds under tile k
TilePositions(k) ==
    IF HeldIdx.t = "dict" /\ k \in DOMAIN HeldIdx.v /\ HeldIdx.v[k].t = "set"
    THEN HeldIdx.v[k].v ELSE {}
\* the positions gathered for a pair: those under either tile
Gathered(item) == TilePositions(item[1].v) \cup TilePositions(item[2].v)
\* every gathered position is a row of the workers' table
InTable(item) ==
    HeldDf.t = "df" /\ \A i \in Gathered(item) : 0 <= i /\ i < Len(HeldDf.v.rows)
Parcel(i) == HeldDf.v.rows[i + 1]
\* the gathered parcels that have a sale price
WithSale(item) ==
    {i \in Gathered(item) :
        "adj_sale_price" \in HeldDf.v.cols /\ ~Parcel(i).adj_sale_price.nan}
\* the gathered parcels complete in the three regression fields
Complete(item) ==
    {i \in Gathered(item) :
        /\ ~Parcel(i).market_value_proxy.nan
        /\ ~Parcel(i).built_area_sqft.nan
        /\ ~Parcel(i).land_area_sqft.nan}
HasRegressionCols ==
    {"market_value_proxy", "built_area_sqft", "land_area_sqft"} \subseteq HeldDf.v.cols
\* a pair for which parcels are gathered
Scored(item) == PairOfStr(item) /\ Gathered(item) # {} /\ InTable(item)

\* C14: for a pair (A, B) whose gathered parcels are not none and of which
\* fewer than 3 have a sale price, _score_edge_pair_worker returns
\* (A, B, 0.0, G, S), G the number of distinct gathered parcels (a parcel
\* under both tiles counted once) and S the number of them with a sale price,
\* and np.linalg.lstsq is not called.
C14_BelowThreshold ==
    payload.kind = "edges" =>
        \A r \in results :
            (Scored(r.item) /\ Cardinality(WithSale(r.item)) < 3) =>
                r.out = Tuple5(r.item[1], r.item[2], Zero,
                               Cardinality(Gathered(r.item)),
                               Cardinality(WithSale(r.item)), FALSE)

\* a pair was scored whose four gathered parcels include one held under both
\* tiles, two of them with a sale price
C14_Witness ==
    /\ payload.kind = "edges" /\ payload.idx = MapOverlap
    /\ \E r \in results :
          /\ Scored(r.item)
          /\ Gathered(r.item) = {0, 1, 2, 3}
          /\ Cardinality(WithSale(r.item)) = 2
          /\ r.out.v.n_obs = 4 /\ r.out.v.n_sales = 2

\* the worker cannot score the item: it is no pair, an identifier cannot be
\* hashed, the payload is not there, or a gathered position is outside the table
Fails(item) ==
    \/ Len(item) # 2
    \/ ~PairOfStr(item)
    \/ HeldIdx.t = "None"
    \/ HeldDf.t = "None"
    \/ ~InTable(item)
SafeDefault(item) ==
    IF Len(item) = 2 THEN Tuple5(item[1], item[2], Zero, 0, 0, FALSE)
    ELSE Tuple5(EmptyStr, EmptyStr, Zero, 0, 0, FALSE)

\* C15: for every work item and payload state _score_edge_pair_worker returns
\* a 5-tuple and never raises; on a failure (uninitialised payload, a parcel
\* position outside the table, an item that is no pair of usable identifiers)
\* the tuple is (A, B, 0.0, 0, 0), A and B being the item's two elements when
\* it has two and empty strings otherwise.
C15_FailuresAbsorbed ==
    payload.kind = "edges" =>
        \A r \in results :
            /\ r.out.t = "tuple"
            /\ Fails(r.item) => r.out = SafeDefault(r.item)

\* a batch of a pair with a parcel position outside the table and an item of
\* one element is done
C15_Witness ==
    /\ payload.kind = "edges" /\ payload.with_init
    /\ payload.idx = MapOutside /\ payload.df.t = "df"
    /\ work = {}
    /\ results =
          {[item |-> <<PyStr(TileA), PyStr(TileB)>>,
            out |-> Tuple5(PyStr(TileA), PyStr(TileB), Zero, 0, 0, FALSE)],
           [item |-> <<PyStr(TileA)>>,
            out |-> Tuple5(EmptyStr, EmptyStr, Zero, 0, 0, FALSE)]}

\* the regression is run for the pair
Regressed(item) ==
    /\ Cardinality(WithSale(item)) >= 3
    /\ HasRegressionCols
    /\ Cardinality(Complete(item)) >= 3
\* the number of positions gathered for an item
GatheredCount(item) == IF PairOfStr(item) THEN Cardinality(Gathered(item)) ELSE 0

\* C16: when n_sales >= 3, the three regression columns exist and at least 3
\* gathered rows are complete in them, n_obs is the number of gathered rows
\* complete in the three fields (with or without a sale price); in every other
\* return for a pair with gathered parcels n_obs is the number of gathered
\* parcels; always 0 <= n_sales <= gathered count and 0 <= n_obs <= gathered
\* count.
C16_NObs ==
    payload.kind = "edges" =>
        \A r \in results :
            /\ (Scored(r.item) /\ Regressed(r.item)) =>
                  r.out.v.n_obs = Cardinality(Complete(r.item))
            /\ (Scored(r.item) /\ ~Regressed(r.item)) =>
                  r.out.v.n_obs = Cardinality(Gathered(r.item))
            /\ 0 <= r.out.v.n_sales /\ r.out.v.n_sales <= GatheredCount(r.item)
            /\ 0 <= r.out.v.n_obs /\ r.out.v.n_obs <= GatheredCount(r.item)

\* a pair was fitted on three of its four gathered parcels, one of the three
\* without a sale price
C16_Witness ==
    /\ payload.kind = "edges"
    /\ \E r \in results :
          /\ Scored(r.item) /\ Regressed(r.item)
          /\ Cardinality(Gathered(r.item)) = 4
          /\ r.out.v.n_obs = 3 /\ r.out.v.n_sales = 3 /\ r.out.v.fitted
          /\ Complete(r.item) \ WithSale(r.item) # {}

\* market_value_proxy is the same on every complete gathered parcel
ConstantY(item) ==
    \A i \in Complete(item), j \in Complete(item) :
        Parcel(i).market_value_proxy = Parcel(j).market_value_proxy
InUnitRange(r2) == IsFinite(r2) /\ ~RatLess(r2, MinusOne) /\ ~RatLess(One, r2)
CompleteRows == Dropna(payload.df.v.rows)

\* C17: the r2 that _score_edge_pair_worker and ols_r2 return is in
\* [-1.0, 1.0]; it is 0.0 whenever n_sales < 3, a regression column is
\* missing, fewer than 3 complete rows remain, ss_tot <= 0 or the fit is not
\* finite (or raises).
C17_R2Bounded ==
    payload.kind = "edges" =>
        /\ \A r \in results :
              /\ InUnitRange(r.out.v.r2)
              /\ (~Scored(r.item) \/ ~Regressed(r.item) \/ ConstantY(r.item)
                    \/ payload.numerics \in {"nonfinite", "raises"})
                    => r.out.v.r2 = Zero
        /\ ols_out.done =>
              /\ InUnitRange(ols_out.val)
              /\ ((\A i \in DOMAIN CompleteRows, j \in DOMAIN CompleteRows :
                      CompleteRows[i].market_value_proxy
                          = CompleteRows[j].market_value_proxy)
                    \/ payload.numerics \in {"nonfinite", "raises"})
                    => ols_out.val = Zero

\* a pair was fitted by an unstable fit whose value, below -1, came back as
\* -1.0, and ols_r2 returned the same
C17_Witness ==
    /\ payload.kind = "edges" /\ payload.numerics = "unstable"
    /\ ols_out.done /\ ols_out.val = MinusOne
    /\ \E r \in results :
          /\ Scored(r.item) /\ Regressed(r.item) /\ ~ConstantY(r.item)
          /\ r.out.v.fitted /\ r.out.v.r2 = MinusOne

-----------------------------------------------------------------------------
(* SpecWriter: the runs of Spec with the orchestrating process as the only   *)
(* one that touches the cache files: nothing else removes or damages them,   *)
(* and the cache directory stays creatable.                                  *)

NextWriter ==
    \/ ChangeInputs
    \/ MakeCacheKey \/ LoadCache \/ CacheValid \/ UseCache \/ SaveCache \/ Restart

SpecWriter == Init /\ [][NextWriter]_vars

\* C18: after any sequence of save_cache calls by a single writer, calls that
\* raise after writing some of the three files included, whenever load_cache
\* returns a fingerprint that cache_valid accepts against the fingerprint
\* passed to the save_cache call that wrote it, the adjacency rows and the
\* score rows returned with it are the rows of that same call.
C18_NeverTorn ==
    (pc = "loaded" /\ last_save.called
        /\ cache_valid(cached_meta, last_save.meta) = "True")
        => /\ df_adj = PyDf(last_save.adj)
           /\ df_scores = PyDf(last_save.scores)

-----------------------------------------------------------------------------
(* SpecSig: _tiles_signature is applied to two tile datasets *)

MaxTiles == 2   \* tiles of a dataset

\* identifiers: "a", "b", "a\nb", "a\na"
SigIds == {<<97>>, <<98>>, <<97, NL, 98>>, <<97, NL, 97>>}
SigLists == UNION {[1..n -> SigIds] : n \in 0..MaxTiles}
TileDatasets ==
    {[tile_key |-> Column(xs), key |-> NoColumn] : xs \in SigLists}
    \cup {[tile_key |-> NoColumn, key |-> Column(xs)] : xs \in SigLists}
    \cup {[tile_key |-> Column(<<>>), key |-> Column(<< <<98>> >>)],
          [tile_key |-> Column(<< <<97>> >>), key |-> Column(<< <<98>> >>)],
          [tile_key |-> NoColumn, key |-> NoColumn]}

NoSig == [done |-> FALSE, val |-> PyNone]

InitSig ==
    /\ IdleFiles /\ IdleRun /\ NoRunResults /\ IdleRows /\ IdleSave /\ IdlePool
    /\ tilesets \in [1..2 -> TileDatasets]
    /\ sigs = [i \in 1..2 |-> NoSig]

TilesSignature(i) ==
    /\ ~sigs[i].done
    /\ sigs' = [sigs EXCEPT ![i] = [done |-> TRUE, val |-> tiles_signature(tilesets[i])]]
    /\ UNCHANGED <<inputs, dir_ok, file_meta, file_adj, file_scores, pc, current_meta,
                   cached_meta, df_adj, df_scores, valid_result, saved_inputs,
                   adjacency, edge_scores, iter_order, adj_out, scores_out,
                   last_save, tilesets, poolvars>>

NextSig == \E i \in {1, 2} : TilesSignature(i)

SpecSig == InitSig /\ [][NextSig]_vars

\* the dataset has an identifier column
HasIds(ds) == ds.tile_key.has \/ ds.key.has
\* its identifiers: tile_key, or key when there is no tile_key
IdsOf(ds) == IF ds.tile_key.has THEN ds.tile_key.vals ELSE ds.key.vals
Occurrences(xs, x) == Cardinality({i \in DOMAIN xs : xs[i] = x})
SameMultiset(xs, ys) == \A x \in SigIds : Occurrences(xs, x) = Occurrences(ys, x)
NoNewline(xs) == \A i \in DOMAIN xs : \A j \in DOMAIN xs[i] : xs[i][j] # NL
BothSigned == sigs[1].done /\ sigs[2].done /\ HasIds(tilesets[1]) /\ HasIds(tilesets[2])

\* C19 as claimed: two datasets that have an identifier column get the same
\* (n_tiles, keys_hash) if and only if they hold the same multiset of
\* identifier strings.
C19_SignatureIdentifiesTiles ==
    BothSigned =>
        (sigs[1].val = sigs[2].val
            <=> SameMultiset(IdsOf(tilesets[1]), IdsOf(tilesets[2])))

\* C19 as amended: two datasets that have an identifier column and whose
\* identifiers contain no newline get the same (n_tiles, keys_hash) if and
\* only if they hold the same multiset of identifier strings, whatever the
\* order of the tiles and whichever of the two columns holds them.
C19_SignatureIdentifiesPlainIds ==
    (BothSigned /\ NoNewline(IdsOf(tilesets[1])) /\ NoNewline(IdsOf(tilesets[2]))) =>
        (sigs[1].val = sigs[2].val
            <=> SameMultiset(IdsOf(tilesets[1]), IdsOf(tilesets[2])))

\* two datasets holding the same two identifiers in opposite orders, one under
\* tile_key and one under key, were signed
C19_Witness ==
    /\ BothSigned
    /\ tilesets[1] = [tile_key |-> Column(<< <<97>>, <<98>> >>), key |-> NoColumn]
    /\ tilesets[2] = [tile_key |-> NoColumn, key |-> Column(<< <<98>>, <<97>> >>)]
    /\ sigs[1].val = sigs[2].val

====
